---------------------------- MODULE Spec2Model ----------------------------
(***************************************************************************)
(* Model of the retrieval and ranking core of RAG_BHG:                     *)
(*   src/src/embeddings/vector_store.py   (VectorStore, flat-index backend) *)
(*   src/src/retrieval/hybrid_search.py   (HybridSearchEngine, rank fusion) *)
(*   src/src/retrieval/reranker.py        (AdvancedReranker and its cache)  *)
(*   src/src/embeddings/openai_embeddings.py (the embedding cache)         *)
(*                                                                         *)
(* Scores are exact integers.  A score is a multiple of a unit that is     *)
(* fixed per ranked list (the repository's scores are "comparable only     *)
(* within one ranked list"):                                               *)
(*   - vector similarities and their reranked combinations: 1/Cent         *)
(*   - RRF sums and their reranked combinations:            1/One          *)
(*   - weighted-fusion sums:                                1/WOne         *)
(*   - keyword (BM25) scores: 1/BM25Unit of the common idf factor          *)
(***************************************************************************)
EXTENDS Integers, Sequences, FiniteSets, TLC

VARIABLES
    \* ---- the vector store and the search engine built on it ----
    index,      \* faiss_metadata: chunk ids in insertion order (where the
                \* three lists of the flat index agree, position i holds
                \* vector, text and metadata of entry i)
    reranker,   \* TRUE when VectorStore.reranker holds a loaded CrossEncoder
    idf_cache,  \* HybridSearchEngine.idf_cache for the query term: 0 when
                \* absent, else the total_docs the cached idf was computed from
    last,       \* the call in progress / its return value
    \* ---- fusion called directly on two ranked lists ----
    lists,      \* the two input lists (the SearchResult objects themselves)
    fused,      \* the list returned by the last fusion call
    prev,       \* chunk ids returned by the call before the last one
    method,     \* fusion routine of the calls made so far ("none" before)
    calls,      \* number of fusion calls made on `lists`
    \* ---- AdvancedReranker and OpenAIEmbeddings ----
    model,      \* TRUE when AdvancedReranker.model holds a loaded CrossEncoder
    combine_method, \* AdvancedReranker.combine_method
    cache,      \* AdvancedReranker.cache: <<key, score>> entries, oldest first
    emb_cache,  \* OpenAIEmbeddings.cache: keys, oldest first
    out,        \* the last rerank / embed call and what it returned
    \* ---- construction and persistence of the store ----
    backend,    \* configured and installed backends, the store built on them
    stats,      \* VectorStore.stats["total_chunks"]
    disk,       \* files of the persist directory
    faiss_vectors,   \* faiss_index: the chunk whose vector each row holds
    faiss_documents, \* faiss_documents: the chunk whose text each entry is
    \* ---- calls in progress, step by step ----
    writer,     \* a thread inside add_chunks
    reader,     \* a thread inside VectorStore.search
    stages,     \* stages the hybrid query in progress has passed
    threads     \* worker threads inside AdvancedReranker._update_cache

vars == <<index, reranker, idf_cache, last, lists, fused, prev, method, calls,
          model, combine_method, cache, emb_cache, out, backend, stats, disk,
          faiss_vectors, faiss_documents, writer, reader, stages, threads>>

storeVars == <<index, reranker, idf_cache, last>>
fusionVars == <<lists, fused, prev, method, calls>>
rerankVars == <<model, combine_method, cache, emb_cache, out>>
lifeVars == <<backend, stats, disk>>
faissVars == <<faiss_vectors, faiss_documents>>
procVars == <<writer, reader, stages, threads>>

-----------------------------------------------------------------------------
(* Bounds of the model *)

MaxEntries == 3    \* entries the flat index can hold
MaxTopK == 2       \* largest top_k a caller asks for
NumIds == 3        \* distinct chunk ids in directly fused lists
MaxLen == 3        \* longest input list handed to a fusion routine
MaxCalls == 2      \* fusion calls made in succession on the same lists
MaxDocs == 2       \* candidates handed to one rerank call
MaxBatch == 2      \* chunks or texts handed to one add_chunks or embed call
MaxCacheSize == 5  \* max_cache_size of both caches (1000 in the source):
                   \* the smallest size whose fifth is a whole entry

-----------------------------------------------------------------------------
(* Program constants *)

K_RRF == 60        \* k of reciprocal rank fusion
TopKVector == 50   \* settings.search.top_k_vector
TopKKeyword == 50  \* settings.search.top_k_keyword
TopKFinal == 20    \* settings.search.top_k_final
ThresholdPct == 15 \* settings.search.similarity_threshold, in hundredths
Cent == 100        \* the integer that stands for 1.0 in vector-score lists

-----------------------------------------------------------------------------
(* Arithmetic helpers *)

Min2(a, b) == IF a <= b THEN a ELSE b
Max2(a, b) == IF a >= b THEN a ELSE b

RECURSIVE Gcd(_, _)
Gcd(a, b) == IF b = 0 THEN a ELSE Gcd(b, a % b)

Lcm(a, b) == (a \div Gcd(a, b)) * b

RECURSIVE LcmRanks(_)
\* least common multiple of K_RRF + 1 .. K_RRF + n
LcmRanks(n) == IF n = 0 THEN 1 ELSE Lcm(LcmRanks(n - 1), K_RRF + n)

ChunkIds == 1..NumIds

\* highest rank a result object can carry in the model
MaxRank == Max2(Max2(MaxLen, NumIds), MaxEntries)

\* the integer that stands for the score 1.0 in RRF lists
One == 10 * LcmRanks(MaxRank)

RECURSIVE SumSeq(_)
SumSeq(s) == IF s = <<>> THEN 0 ELSE Head(s) + SumSeq(Tail(s))

SeqMax(s) == CHOOSE x \in {s[i] : i \in 1..Len(s)} :
                 \A i \in 1..Len(s) : s[i] <= x
SeqMin(s) == CHOOSE x \in {s[i] : i \in 1..Len(s)} :
                 \A i \in 1..Len(s) : s[i] >= x

Ids(s) == [i \in 1..Len(s) |-> s[i].chunk_id]

NonIncreasing(s) == \A i \in 1..(Len(s) - 1) : s[i].score >= s[i + 1].score

-----------------------------------------------------------------------------
(* sorted(..., key=score, reverse=True) and list.sort(key=score,           *)
(* reverse=True): Python's sort is stable, also with reverse=True.         *)

RECURSIVE InsertDescUnstable(_, _)
InsertDescUnstable(x, s) ==
    IF s = <<>> THEN <<x>>
    ELSE IF Head(s).score > x.score
         THEN <<Head(s)>> \o InsertDescUnstable(x, Tail(s))
         ELSE <<x>> \o s

RECURSIVE InsertDesc(_, _)
\* x goes behind every element whose score is >= its own
InsertDesc(x, s) ==
    IF s = <<>> THEN <<x>>
    ELSE IF Head(s).score >= x.score
         THEN <<Head(s)>> \o InsertDesc(x, Tail(s))
         ELSE <<x>> \o s

RECURSIVE SortByScoreDescUnstable(_)
\* equal scores come out in reverse input order (ascending sort, reversed)
SortByScoreDescUnstable(s) ==
    IF s = <<>> THEN <<>>
    ELSE InsertDescUnstable(s[Len(s)],
                            SortByScoreDescUnstable(SubSeq(s, 1, Len(s) - 1)))

RECURSIVE SortByScoreDesc(_)
SortByScoreDesc(s) ==
    IF s = <<>> THEN <<>>
    ELSE InsertDesc(s[Len(s)], SortByScoreDesc(SubSeq(s, 1, Len(s) - 1)))

-----------------------------------------------------------------------------
(* Rank fusion.  A result object is addressed by <<l, p>>: list l,         *)
(* position p.  The dictionaries fused_scores / all_results keep insertion *)
(* order, which is the order of first appearance of each chunk id.         *)

RECURSIVE Refs(_, _)
Refs(ls, l) ==
    IF l > Len(ls) THEN <<>>
    ELSE [p \in 1..Len(ls[l]) |-> <<l, p>>] \o Refs(ls, l + 1)

Obj(ls, r) == ls[r[1]][r[2]]

\* every occurrence gets an entry of its own (no `chunk_id in fused_scores`)
FirstRefsNoDedup(ls) == Refs(ls, 1)

\* the objects stored in all_results: the first one seen for each chunk id
FirstRefs(ls) ==
    LET all == Refs(ls, 1)
        idx == SelectSeq([i \in 1..Len(all) |-> i],
                 LAMBDA i : \A j \in 1..(i - 1) :
                     Obj(ls, all[j]).chunk_id # Obj(ls, all[i]).chunk_id)
    IN  [i \in 1..Len(idx) |-> all[idx[i]]]

RrfScore(rank) == One \div (K_RRF + rank)

\* fused_scores[chunk_id] of HybridSearchEngine._reciprocal_rank_fusion
EngineRrfSum(ls, id) ==
    LET all == Refs(ls, 1)
    IN  SumSeq([i \in 1..Len(all) |->
            IF Obj(ls, all[i]).chunk_id = id
            THEN RrfScore(Obj(ls, all[i]).rank) ELSE 0])

\* fused_scores[chunk_id] of VectorStore._reciprocal_rank_fusion
StoreRrfSum(ls, id) ==
    LET all == Refs(ls, 1)
    IN  SumSeq([i \in 1..Len(all) |->
            IF Obj(ls, all[i]).chunk_id = id
            THEN RrfScore(all[i][2]) ELSE 0])

\* the sorted (chunk_id, score) items, each with the object all_results holds
EngineRrfItems(ls) ==
    LET first == FirstRefs(ls)
    IN  SortByScoreDesc([i \in 1..Len(first) |->
            [ref |-> first[i],
             chunk_id |-> Obj(ls, first[i]).chunk_id,
             score |-> EngineRrfSum(ls, Obj(ls, first[i]).chunk_id)]])

FusedList(items) ==
    [i \in 1..Len(items) |->
        [chunk_id |-> items[i].chunk_id, score |-> items[i].score,
         rank |-> i, source |-> "hybrid"]]

\* the input lists after a fusion that writes score, source and rank into
\* the objects of all_results; `shared` are the lists whose objects the
\* fusion holds (not copies of them)
WrittenBack(ls, items, shared) ==
    [l \in 1..Len(ls) |-> [p \in 1..Len(ls[l]) |->
        IF l \in shared /\ \E i \in 1..Len(items) : items[i].ref = <<l, p>>
        THEN LET i == CHOOSE i \in 1..Len(items) : items[i].ref = <<l, p>>
             IN  FusedList(items)[i]
        ELSE ls[l][p]]]

\* HybridSearchEngine._reciprocal_rank_fusion: the returned list
EngineRrf(ls) == FusedList(EngineRrfItems(ls))

\* HybridSearchEngine._reciprocal_rank_fusion: the input lists afterwards
EngineRrfInputsAfter(ls) ==
    WrittenBack(ls, EngineRrfItems(ls), 1..Len(ls))

\* VectorStore._reciprocal_rank_fusion: copies the results, sorts the copies
StoreRrf(ls) ==
    LET first == FirstRefs(ls)
        copies == [i \in 1..Len(first) |->
            [Obj(ls, first[i]) EXCEPT
                !.score = StoreRrfSum(ls, Obj(ls, first[i]).chunk_id)]]
    IN  SortByScoreDesc(copies)

-----------------------------------------------------------------------------
(* Weighted fusion.  Weights are tenths; a normalized score is a multiple  *)
(* of 1/NormDen, a combined score a multiple of 1/WOne.                    *)

InputScores == {1, 3}

RECURSIVE LcmSet(_)
LcmSet(S) ==
    IF S = {} THEN 1
    ELSE LET x == CHOOSE x \in S : TRUE IN Lcm(x, LcmSet(S \ {x}))

\* every positive score range of a list divides NormDen
NormDen == LcmSet({d \in {a - b : a \in InputScores, b \in InputScores} : d > 0})

WOne == 10 * NormDen

Scores(list) == [i \in 1..Len(list) |-> list[i].score]

ScoreRange(list) == SeqMax(Scores(list)) - SeqMin(Scores(list))

\* `weights = [1.0 / len(result_lists)] * len(result_lists)` when not given
Weights(ls, w) == IF w = <<>> THEN [l \in 1..Len(ls) |-> 10 \div Len(ls)] ELSE w

\* lists whose result objects are used as they are (`normalized = result_list`)
Unnormalized(ls) == {l \in 1..Len(ls) : ls[l] # <<>> /\ ScoreRange(ls[l]) = 0}

\* a zero-range list normalized to zero instead of being left as it is
NormalizedScoreZeroed(ls, r) ==
    LET list == ls[r[1]]
        s == list[r[2]].score
    IN  IF ScoreRange(list) > 0
        THEN ((s - SeqMin(Scores(list))) * NormDen) \div ScoreRange(list)
        ELSE 0

\* score of the object the fusion reads for the result at <<l, p>>
NormalizedScore(ls, r) ==
    LET list == ls[r[1]]
        s == list[r[2]].score
    IN  IF ScoreRange(list) > 0
        THEN ((s - SeqMin(Scores(list))) * NormDen) \div ScoreRange(list)
        ELSE s * NormDen

\* combined_scores[chunk_id]; zip() stops at the shorter of lists and weights
WeightedSum(ls, w, id) ==
    LET all == Refs(ls, 1)
    IN  SumSeq([i \in 1..Len(all) |->
            IF Obj(ls, all[i]).chunk_id = id /\ all[i][1] <= Len(w)
            THEN NormalizedScore(ls, all[i]) * w[all[i][1]] ELSE 0])

WeightedItems(ls, w) ==
    LET zipped == SubSeq(ls, 1, Min2(Len(ls), Len(w)))
        first == FirstRefs(zipped)
    IN  SortByScoreDesc([i \in 1..Len(first) |->
            [ref |-> first[i],
             chunk_id |-> Obj(ls, first[i]).chunk_id,
             score |-> WeightedSum(ls, w, Obj(ls, first[i]).chunk_id)]])

\* HybridSearchEngine._weighted_fusion: the returned list
WeightedFusion(ls, w) == FusedList(WeightedItems(ls, Weights(ls, w)))

\* HybridSearchEngine._weighted_fusion: the input lists afterwards
WeightedInputsAfter(ls, w) ==
    WrittenBack(ls, WeightedItems(ls, Weights(ls, w)), Unnormalized(ls))

-----------------------------------------------------------------------------
(* The corpus.  A chunk id is derived from the chunk's content, so a chunk  *)
(* id stands for one content: its cosine similarity to the query (in        *)
(* hundredths), a metadata value, the relevance the cross-encoder predicts  *)
(* for (query, content), the number of occurrences of the query term among  *)
(* its tokens, and its number of tokens.                                    *)

Corpus == <<
    [sim |-> 90, tag |-> "B", rr |-> -1, tf |-> 0, len |-> 2],
    [sim |-> 80, tag |-> "B", rr |-> -1, tf |-> 1, len |-> 2],
    [sim |-> 50, tag |-> "A", rr |->  1, tf |-> 2, len |-> 3],
    [sim |-> 10, tag |-> "A", rr |->  1, tf |-> 1, len |-> 3],
    [sim |-> 90, tag |-> "A", rr |->  1, tf |-> 1, len |-> 2] >>

Chunks == DOMAIN Corpus

Filters == {"none", "A", "B"}

\* all(metadata.get(key) == value for key, value in filter_dict.items())
Matches(id, filter) == filter = "none" \/ Corpus[id].tag = filter

\* similarity_threshold in the unit of a list
Threshold(one) == (ThresholdPct * one) \div 100

\* `top_k = top_k or settings.search.top_k_final`
EffectiveTopK(top_k) == IF top_k = 0 THEN TopKFinal ELSE top_k

Truncate(s, k) == SubSeq(s, 1, Min2(k, Len(s)))

SetField(r, f, v) == [x \in DOMAIN r \cup {f} |-> IF x = f THEN v ELSE r[x]]

-----------------------------------------------------------------------------
(* VectorStore, flat-index backend *)

\* faiss_index.search(query_vec, k): the k entries of highest inner product
\* with the query (vectors are L2-normalized when added)
FaissIndexSearch(idx, k) ==
    Truncate(SortByScoreDesc([i \in 1..Len(idx) |->
                 [pos |-> i, score |-> Corpus[idx[i]].sim]]), k)

\* number of neighbours _search_faiss asks the index for
FaissK(idx, top_k) == Min2(Max2(top_k * 2, 1), Len(idx))

\* the index asked for no neighbour: faiss_index.search refuses k = 0
SearchFaissErrorUnguarded(idx, top_k) ==
    IF FaissK(idx, top_k) < 1 THEN "AssertionError" ELSE "none"

\* VectorStore._search_faiss: the exception it raises
SearchFaissError(idx, top_k) ==
    IF Len(idx) = 0 THEN "none"
    ELSE IF FaissK(idx, top_k) < 1 THEN "AssertionError"
    ELSE "none"

\* VectorStore._search_faiss
SearchFaiss(idx, top_k, filter) ==
    IF Len(idx) = 0 THEN <<>>
    ELSE LET k == FaissK(idx, top_k)
             found == FaissIndexSearch(idx, k)
             rows == [i \in 1..k |->
                        [chunk_id |-> idx[found[i].pos],
                         score |-> found[i].score, rank |-> i]]
         IN  SelectSeq(rows, LAMBDA r : Matches(r.chunk_id, filter))

\* 0.7 * rerank_score + 0.3 * original_score
CombinedScore(id, score, one) == (7 * Corpus[id].rr * one + 3 * score) \div 10

Reranked(results, one) ==
    [i \in 1..Len(results) |->
        [results[i] EXCEPT
            !.score = CombinedScore(results[i].chunk_id, @, one)]]

Renumbered(results) ==
    [i \in 1..Len(results) |-> SetField(results[i], "rank", i)]

\* the scores are combined but the list is left in its old order
StoreRerankNoSort(results, predict_ok, one) ==
    IF ~reranker \/ results = <<>> \/ ~predict_ok THEN results
    ELSE Renumbered(Reranked(results, one))

\* VectorStore._rerank_results; predict_ok is FALSE when reranker.predict
\* raises, and the results are then returned as they were
StoreRerank(results, predict_ok, one) ==
    IF ~reranker \/ results = <<>> \/ ~predict_ok THEN results
    ELSE Renumbered(SortByScoreDesc(Reranked(results, one)))

\* VectorStore.search
StoreSearch(idx, top_k_arg, filter, predict_ok) ==
    LET top_k == EffectiveTopK(top_k_arg)
        raw == SearchFaiss(idx, top_k, filter)
        ranked == IF reranker /\ Len(raw) > 0
                  THEN StoreRerank(raw, predict_ok, Cent) ELSE raw
        kept == SelectSeq(ranked, LAMBDA r : r.score >= Threshold(Cent))
    IN  Truncate(kept, top_k)

\* VectorStore._keyword_search: score = matching terms / query terms
StoreKeywordSearch(idx, top_k) ==
    LET hits == SelectSeq(idx, LAMBDA id : Corpus[id].tf > 0)
        rows == [i \in 1..Len(hits) |->
                    [chunk_id |-> hits[i], score |-> Cent, match_count |-> 1]]
    IN  Truncate(SortByScoreDesc(rows), top_k)

\* VectorStore.hybrid_search
StoreHybridSearch(idx, top_k_arg, ok_vector, ok_final) ==
    LET top_k == EffectiveTopK(top_k_arg)
        vector_results == StoreSearch(idx, TopKVector, "none", ok_vector)
        keyword_results == StoreKeywordSearch(idx, TopKKeyword)
        fused_results == StoreRrf(<<vector_results, keyword_results>>)
        ranked == IF reranker THEN StoreRerank(fused_results, ok_final, One)
                  ELSE fused_results
    IN  Truncate(ranked, top_k)

-----------------------------------------------------------------------------
(* HybridSearchEngine over the store *)

\* _vector_search: the first top_k of raw_results as SearchResult objects
AsVectorResults(raw_results, top_k) ==
    LET raw == Truncate(raw_results, top_k)
    IN  [i \in 1..Len(raw) |->
            [chunk_id |-> raw[i].chunk_id, score |-> raw[i].score,
             rank |-> i, source |-> "vector"]]

\* HybridSearchEngine._vector_search
EngineVectorSearch(idx, top_k, filter, predict_ok) ==
    AsVectorResults(StoreSearch(idx, top_k * 2, filter, predict_ok), top_k)

\* HybridSearchEngine._get_all_documents, flat-index branch
AllDocuments(idx, filter) == SelectSeq(idx, LAMBDA id : Matches(id, filter))

TotalLength(docs) == SumSeq([i \in 1..Len(docs) |-> Corpus[docs[i]].len])

\* total_docs the idf of the query term is computed from (_get_idf): the
\* cached one (`cached`, 0 when there is none) when there is one
IdfDocs(cached, docs) == IF cached # 0 THEN cached ELSE Len(docs)

\* math.log((total_docs + 1) / 2) > 0
IdfPositive(n) == n + 1 > 2

\* _calculate_bm25_score for the one query term, as idf * num / den with
\* k1 = 1.2, b = 0.75 and avg_doc_length = TotalLength / Len(docs)
BM25Num(id, docs) == 22 * Corpus[id].tf * TotalLength(docs)
BM25Den(id, docs) ==
    10 * Corpus[id].tf * TotalLength(docs) + 3 * TotalLength(docs)
        + 9 * Corpus[id].len * Len(docs)

\* _tokenize(query.lower()): punctuation is removed, then the stopwords
Stopwords == {"el", "la"}
Punctuation == {"?", "!"}
Tokenize(words) ==
    SelectSeq(words, LAMBDA w : w \notin Punctuation /\ w \notin Stopwords)

\* the query whose term the corpus counts
TermQuery == <<"term">>

\* occurrences of the term among the query tokens: the score of a document
\* is the sum of one BM25 summand per query token it holds
TermCount(tokens) == Len(SelectSeq(tokens, LAMBDA w : w = "term"))

\* documents with score > 0 when the idf comes from n documents
Scored(n, docs) ==
    IF IdfPositive(n)
    THEN SelectSeq(docs, LAMBDA id : Corpus[id].tf > 0)
    ELSE <<>>

\* common denominator of the scores of one keyword search
BM25Unit(n, docs) ==
    LcmSet({BM25Den(Scored(n, docs)[i], docs) : i \in 1..Len(Scored(n, docs))})

\* every document that holds the term is kept, whatever the query
ScoredForAnyQuery(n, tokens, docs) == Scored(n, docs)

\* documents with score > 0 for the tokens of a query
ScoredFor(n, tokens, docs) ==
    IF TermCount(tokens) > 0 THEN Scored(n, docs) ELSE <<>>

\* HybridSearchEngine._keyword_search for a query without boost keywords,
\* by an engine whose idf_cache holds `cached`: the returned list
KeywordSearch(cached, query, idx, top_k, filter) ==
    LET docs == AllDocuments(idx, filter)
        tokens == Tokenize(query)
        n == IdfDocs(cached, docs)
        hits == ScoredFor(n, tokens, docs)
        scores == SortByScoreDesc([i \in 1..Len(hits) |->
                     [chunk_id |-> hits[i],
                      score |-> TermCount(tokens) * BM25Num(hits[i], docs)
                                  * (BM25Unit(n, docs) \div BM25Den(hits[i], docs))]])
        top == Truncate(scores, top_k)
    IN  [i \in 1..Len(top) |->
            [chunk_id |-> top[i].chunk_id, score |-> top[i].score,
             rank |-> i, source |-> "keyword"]]

\* the keyword search for the term
EngineKeywordSearch(idx, top_k, filter) ==
    KeywordSearch(idf_cache, TermQuery, idx, top_k, filter)

\* HybridSearchEngine._keyword_search: idf_cache afterwards; _get_idf runs
\* when a document holds a token of the query
IdfCacheAfterQuery(query, idx, filter) ==
    LET docs == AllDocuments(idx, filter)
    IN  IF /\ idf_cache = 0
           /\ TermCount(Tokenize(query)) > 0
           /\ \E i \in 1..Len(docs) : Corpus[docs[i]].tf > 0
        THEN Len(docs) ELSE idf_cache

IdfCacheAfter(idx, filter) == IdfCacheAfterQuery(TermQuery, idx, filter)

\* HybridSearchEngine._rerank_results
EngineRerank(results, predict_ok) ==
    IF results = <<>> THEN results
    ELSE LET docs == [i \in 1..Len(results) |->
                        [chunk_id |-> results[i].chunk_id,
                         score |-> results[i].score]]
             reranked == StoreRerank(docs, predict_ok, One)
         IN  [i \in 1..Len(reranked) |->
                [chunk_id |-> reranked[i].chunk_id,
                 score |-> reranked[i].score,
                 rank |-> i, source |-> "hybrid-reranked"]]

\* HybridSearchEngine._hybrid_search
EngineHybridSearch(idx, top_k, filter, ok_vector, ok_final) ==
    LET vector_results == EngineVectorSearch(idx, TopKVector, filter, ok_vector)
        keyword_results == EngineKeywordSearch(idx, TopKKeyword, filter)
        fused_results == EngineRrf(<<vector_results, keyword_results>>)
        ranked == IF reranker THEN EngineRerank(fused_results, ok_final)
                  ELSE fused_results
    IN  Truncate(ranked, top_k)

\* HybridSearchEngine.search
EngineSearch(idx, top_k_arg, search_type, filter, ok_vector, ok_final) ==
    LET top_k == EffectiveTopK(top_k_arg)
    IN  CASE search_type = "vector" ->
                EngineVectorSearch(idx, top_k, filter, ok_vector)
          [] search_type = "keyword" ->
                EngineKeywordSearch(idx, top_k, filter)
          [] search_type = "hybrid" ->
                EngineHybridSearch(idx, top_k, filter, ok_vector, ok_final)

-----------------------------------------------------------------------------
(* AdvancedReranker.  A score is a number of halves (2 stands for 1.0).    *)
(* A combined score is a multiple of a unit fixed by the combination mode: *)
(* 1/20 (weighted), 1/4 (multiply), 1/RrfUnit (rrf).                       *)

\* queries, as the terms of query.lower().split()
QueryTerms == << <<"a", "b">>, <<"a">>, <<>>, <<"b">>, <<"b", "a">> >>

\* Candidate documents.  key: the first 100 characters of the content (2
\* and 3 differ only after them); score: doc.get('score', 0.0); predict:
\* the relevance the cross-encoder gives the content; has: the query terms
\* the content contains; phrases: the two-term queries it contains whole.
RerankDocs == <<
    [key |-> 1, score |-> 2, predict |-> 4, has |-> {"a", "b"},
     phrases |-> {<<"a", "b">>}],
    [key |-> 2, score |-> 1, predict |-> 1, has |-> {"a"}, phrases |-> {}],
    [key |-> 2, score |-> 1, predict |-> 2, has |-> {"a"}, phrases |-> {}],
    [key |-> 3, score |-> 0, predict |-> 0, has |-> {}, phrases |-> {}],
    [key |-> 4, score |-> 1, predict |-> 1, has |-> {"a"}, phrases |-> {}] >>

\* self.model.predict for one pair
Predict(q, d) == IF QueryTerms[q] = <<>> THEN 0 ELSE RerankDocs[d].predict

\* `query.lower() in content_lower`
PhraseIn(q, d) ==
    LET terms == QueryTerms[q]
    IN  CASE Len(terms) = 0 -> TRUE
          [] Len(terms) = 1 -> terms[1] \in RerankDocs[d].has
          [] OTHER -> terms \in RerankDocs[d].phrases

\* rerank_score of _fallback_rerank: matches / len(query_terms), matches
\* doubled when the content holds the whole query
FallbackScore(q, d) ==
    LET query_terms == {QueryTerms[q][i] : i \in 1..Len(QueryTerms[q])}
        found == Cardinality(query_terms \cap RerankDocs[d].has)
        matches == IF PhraseIn(q, d) THEN found * 2 ELSE found
    IN  IF query_terms = {} THEN 0
        ELSE (2 * matches) \div Cardinality(query_terms)

\* the scores a document can bring or get, zero left out
NonZeroScores ==
    {x \in UNION {{RerankDocs[d].score, RerankDocs[d].predict} \cup
                    {FallbackScore(q, d) : q \in DOMAIN QueryTerms}
                  : d \in DOMAIN RerankDocs} : x # 0}

\* 1 / (k + 1/x) for x = a/2 is a / (60a + 2): common denominator
RrfUnit == LcmSet({K_RRF * a + 2 : a \in NonZeroScores})

\* _combine_scores raises ZeroDivisionError: 1/original_score or
\* 1/rerank_score with a zero score, or k + 1/score = 0
CombineRaises(mode, o, r) ==
    mode = "rrf" /\ (o = 0 \/ r = 0 \/ K_RRF * o + 2 = 0 \/ K_RRF * r + 2 = 0)

\* _combine_scores, weight_original = 0.3 and weight_rerank = 0.7
CombineScores(mode, o, r) ==
    CASE mode = "weighted" -> 3 * o + 7 * r
      [] mode = "multiply" -> o * r
      [] mode = "rrf" -> o * (RrfUnit \div (K_RRF * o + 2))
                           + r * (RrfUnit \div (K_RRF * r + 2))
      [] OTHER -> r

\* the RerankResult of document d at position i of the candidates
RerankResult(mode, d, i, rerank_score) ==
    [chunk_id |-> d,
     original_score |-> RerankDocs[d].score,
     rerank_score |-> rerank_score,
     combined_score |-> CombineScores(mode, RerankDocs[d].score, rerank_score),
     original_rank |-> i,
     new_rank |-> 0]

\* results.sort(key=combined_score, reverse=True), equal scores reversed
SortByCombinedDescUnstable(rs) ==
    LET keyed == [i \in 1..Len(rs) |->
                    [score |-> rs[i].combined_score, r |-> rs[i]]]
        sorted == SortByScoreDescUnstable(keyed)
    IN  [i \in 1..Len(rs) |-> sorted[i].r]

\* results.sort(key=lambda x: x.combined_score, reverse=True)
SortByCombinedDesc(rs) ==
    LET keyed == [i \in 1..Len(rs) |->
                    [score |-> rs[i].combined_score, r |-> rs[i]]]
        sorted == SortByScoreDesc(keyed)
    IN  [i \in 1..Len(rs) |-> sorted[i].r]

\* sort, then result.new_rank = i + 1
Ranked(rs) ==
    LET sorted == SortByCombinedDesc(rs)
    IN  [i \in 1..Len(rs) |-> [sorted[i] EXCEPT !.new_rank = i]]

\* the first candidate whose scores _combine_scores cannot combine, 0 if none
FirstRaising(mode, docs, scores) ==
    LET bad == {i \in 1..Len(docs) :
                   CombineRaises(mode, RerankDocs[docs[i]].score, scores[i])}
    IN  IF bad = {} THEN 0 ELSE CHOOSE i \in bad : \A j \in bad : i <= j

\* what a rerank call gives back: the exception it raises or the list, cut
\* to its first `cut` results when cut > 0
Outcome(mode, docs, scores, cut) ==
    IF FirstRaising(mode, docs, scores) # 0
    THEN [error |-> "ZeroDivisionError", results |-> <<>>]
    ELSE LET ranked == Ranked([i \in 1..Len(docs) |->
                          RerankResult(mode, docs[i], i, scores[i])])
         IN  [error |-> "none",
              results |-> IF cut > 0 THEN Truncate(ranked, cut) ELSE ranked]

\* AdvancedReranker._fallback_rerank; `if top_k:` takes 0 and None alike
FallbackRerank(mode, q, docs, top_k) ==
    Outcome(mode, docs, [i \in 1..Len(docs) |-> FallbackScore(q, docs[i])],
            top_k)

-----------------------------------------------------------------------------
(* The caches of AdvancedReranker and OpenAIEmbeddings: dictionaries, kept *)
(* as sequences of entries in insertion order.                             *)

HasKey(c, key) == \E i \in 1..Len(c) : c[i].key = key

CacheGet(c, key) == c[CHOOSE i \in 1..Len(c) : c[i].key = key].value

\* int(self.max_cache_size * 0.2)
EvictCount == (MaxCacheSize * 2) \div 10

\* list(self.cache.keys())[:int(max_cache_size * 0.2)] deleted when the
\* cache is full
AfterEviction(c) ==
    IF Len(c) >= MaxCacheSize
    THEN SubSeq(c, Min2(EvictCount, Len(c)) + 1, Len(c))
    ELSE c

\* self.cache[key] = value: a key already there keeps its place
SetKey(c, key, value) ==
    IF HasKey(c, key)
    THEN [i \in 1..Len(c) |->
            IF c[i].key = key THEN [key |-> key, value |-> value] ELSE c[i]]
    ELSE Append(c, [key |-> key, value |-> value])

\* the entry is stored and nothing is ever removed
UpdateCacheNoEviction(c, key, value) == SetKey(c, key, value)

\* _update_cache (the same code in both classes)
UpdateCache(c, key, value) == SetKey(AfterEviction(c), key, value)

RECURSIVE UpdateAll(_, _)
\* _update_cache for each entry of a sequence, in order
UpdateAll(c, entries) ==
    IF entries = <<>> THEN c
    ELSE UpdateAll(UpdateCache(c, Head(entries).key, Head(entries).value),
                   Tail(entries))

RECURSIVE EvictedBy(_, _)
\* number of entries the evictions of those updates delete
EvictedBy(c, entries) ==
    IF entries = <<>> THEN 0
    ELSE (Len(c) - Len(AfterEviction(c)))
           + EvictedBy(UpdateCache(c, Head(entries).key, Head(entries).value),
                       Tail(entries))

\* _get_cache_key: hash of the query and of the first 100 characters
CacheKey(q, d) == <<q, RerankDocs[d].key>>

-----------------------------------------------------------------------------
(* AdvancedReranker.rerank *)

\* positions whose score is taken from the cache (read before any update)
CachedPositions(c, q, docs, use_cache) ==
    {i \in 1..Len(docs) : use_cache /\ HasKey(c, CacheKey(q, docs[i]))}

\* uncached_indices, in order
UncachedIndices(c, q, docs, use_cache) ==
    SelectSeq([i \in 1..Len(docs) |-> i],
              LAMBDA i : i \notin CachedPositions(c, q, docs, use_cache))

\* TRUE when the call ends in _fallback_rerank
TakesFallback(c, q, docs, use_cache, predict_ok) ==
    \/ ~model
    \/ docs = <<>>
    \/ UncachedIndices(c, q, docs, use_cache) # <<>> /\ ~predict_ok

\* the entries the call stores: the predicted score of every uncached
\* candidate, after all batches have been predicted
NewEntries(c, q, docs, use_cache, predict_ok) ==
    IF TakesFallback(c, q, docs, use_cache, predict_ok) \/ ~use_cache
    THEN <<>>
    ELSE LET un == UncachedIndices(c, q, docs, use_cache)
         IN  [n \in 1..Len(un) |->
                [key |-> CacheKey(q, docs[un[n]]),
                 value |-> Predict(q, docs[un[n]])]]

\* rerank: the exception or the list it gives back
Rerank(c, q, docs, top_k, return_all, use_cache, predict_ok) ==
    IF TakesFallback(c, q, docs, use_cache, predict_ok)
    THEN FallbackRerank(combine_method, q, docs, top_k)
    ELSE Outcome(combine_method, docs,
                 [i \in 1..Len(docs) |->
                    IF i \in CachedPositions(c, q, docs, use_cache)
                    THEN CacheGet(c, CacheKey(q, docs[i]))
                    ELSE Predict(q, docs[i])],
                 IF top_k > 0 /\ ~return_all THEN top_k ELSE 0)

-----------------------------------------------------------------------------
(* Construction of the store *)

\* no search call in progress
Idle == [op |-> "idle", top_k |-> 0, filter |-> "none", ok_vector |-> TRUE,
         ok_final |-> TRUE, raw |-> <<>>, results |-> <<>>, error |-> "none",
         lengths |-> <<>>, query |-> <<>>]

\* the store as the other specifications start from it: the flat-index
\* backend, configured and installed
FaissBuilt == [configured |-> "faiss", chromadb_available |-> TRUE,
               faiss_available |-> TRUE, store_type |-> "faiss",
               error |-> "none"]

\* an empty persist directory
NoFiles == [exists |-> FALSE, vectors |-> <<>>, metadata |-> <<>>,
            documents |-> <<>>, total_chunks |-> 0]

\* worker threads that share one reranker
NumThreads == 2
Threads == 1..NumThreads

\* no thread is inside add_chunks, search or _update_cache
NoWriter == [pc |-> "idle", chunks |-> <<>>, done |-> 0]
NoReader == [pc |-> "idle", top_k |-> 0, found |-> <<>>, results |-> <<>>,
             error |-> "none"]
NoThreads == [t \in Threads |-> [pc |-> "idle", key |-> 0, evict |-> <<>>]]

\* store types a configuration may name (settings.vector_store.type)
StoreTypes == {"chromadb", "faiss", "qdrant"}

\* self.store_type after the availability check of __init__
ConstructedType(configured, chromadb_available) ==
    IF configured = "chromadb" /\ ~chromadb_available THEN "faiss"
    ELSE configured

\* the exception __init__ raises
ConstructError(configured, chromadb_available, faiss_available) ==
    LET store_type == ConstructedType(configured, chromadb_available)
    IN  IF store_type = "faiss" /\ ~faiss_available THEN "ImportError"
        ELSE IF store_type \notin {"chromadb", "faiss"} THEN "ValueError"
        ELSE "none"

\* the store __init__ leaves behind ("none" when it raised)
Constructed(configured, chromadb_available, faiss_available) ==
    LET error == ConstructError(configured, chromadb_available,
                                faiss_available)
    IN  [configured |-> configured,
         chromadb_available |-> chromadb_available,
         faiss_available |-> faiss_available,
         store_type |-> IF error = "none"
                        THEN ConstructedType(configured, chromadb_available)
                        ELSE "none",
         error |-> error]

\* a flat-index store exists
FaissStore == backend.store_type = "faiss"

\* save_index, flat-index branch: faiss_index.bin, faiss_metadata.pkl and
\* vector_store_stats.json
SavedFiles(vectors, metadata, documents, total_chunks) ==
    [exists |-> TRUE, vectors |-> vectors, metadata |-> metadata,
     documents |-> documents, total_chunks |-> total_chunks]

\* nothing is read back
LoadedIndexNone(d) == <<>>

\* _init_faiss: the index read from faiss_index.bin with the metadata and
\* documents of faiss_metadata.pkl (both written by one save_index)
LoadedIndex(d) == IF d.exists THEN d.metadata ELSE <<>>

\* _init_faiss: the rows of the index read from faiss_index.bin, and the
\* texts of faiss_metadata.pkl
LoadedVectors(d) == IF d.exists THEN d.vectors ELSE <<>>
LoadedDocuments(d) == IF d.exists THEN d.documents ELSE <<>>

\* embedding_dimension of the store, and the length of the vectors of the
\* smaller embedding models
EmbeddingDimension == 3072
SmallDimension == 1536

\* the exception _add_to_faiss raises: rows of unequal length cannot be
\* made a float32 array, rows of another length than the index's are
\* refused by faiss_index.add
AddError(lengths) ==
    IF \E i, j \in 1..Len(lengths) : lengths[i] # lengths[j]
    THEN "ValueError"
    ELSE IF \E i \in 1..Len(lengths) : lengths[i] # EmbeddingDimension
    THEN "AssertionError"
    ELSE "none"

\* _add_to_faiss: the index afterwards
AddToFaiss(idx, chunks, lengths) ==
    IF AddError(lengths) = "none" THEN idx \o chunks ELSE idx

\* add_chunks: stats["total_chunks"] afterwards
TotalChunksAfter(total_chunks, chunks, lengths) ==
    IF AddError(lengths) = "none" THEN total_chunks + Len(chunks)
    ELSE total_chunks

-----------------------------------------------------------------------------
(* Calls on the reranker and on the embeddings client *)

NoCall == [op |-> "idle", mode |-> "none", query |-> 0, docs |-> <<>>,
           top_k |-> 0, return_all |-> FALSE, use_cache |-> FALSE,
           path |-> "none", error |-> "none", results |-> <<>>,
           evicted |-> 0]

CombineMethods == {"weighted", "multiply", "rrf"}

\* candidate lists: up to n documents of S, each at most once
DocLists(S, n) ==
    UNION {{f \in [1..m -> S] : \A i, j \in 1..m : i # j => f[i] # f[j]}
           : m \in 0..n}

\* one call of rerank: the cache is updated before the scores are combined
RerankStep(q, docs, top_k, return_all, use_cache, predict_ok) ==
    LET entries == NewEntries(cache, q, docs, use_cache, predict_ok)
        got == Rerank(cache, q, docs, top_k, return_all, use_cache, predict_ok)
    IN  /\ cache' = UpdateAll(cache, entries)
        /\ out' = [op |-> "rerank", mode |-> combine_method, query |-> q,
                   docs |-> docs, top_k |-> top_k, return_all |-> return_all,
                   use_cache |-> use_cache,
                   path |-> IF TakesFallback(cache, q, docs, use_cache,
                                             predict_ok)
                            THEN "fallback" ELSE "model",
                   error |-> got.error, results |-> got.results,
                   evicted |-> EvictedBy(cache, entries)]
        /\ UNCHANGED <<model, combine_method, emb_cache, storeVars,
                       fusionVars, lifeVars, faissVars,
                   procVars>>

\* the reranker after __init__: the model loaded or not (_load_model)
InitReranker ==
    /\ model \in BOOLEAN
    /\ combine_method = "weighted"
    /\ cache = <<>>
    /\ emb_cache = <<>>
    /\ out = NoCall
    /\ index = <<>>
    /\ reranker = FALSE
    /\ idf_cache = 0
    /\ last = Idle
    /\ lists = <<>>
    /\ fused = <<>>
    /\ prev = <<>>
    /\ method = "none"
    /\ calls = 0
    /\ backend = FaissBuilt
    /\ stats = 0
    /\ disk = NoFiles
    /\ faiss_vectors = <<>>
    /\ faiss_documents = <<>>
    /\ writer = NoWriter
    /\ reader = NoReader
    /\ stages = <<>>
    /\ threads = NoThreads

\* the caller picks another combination mode
SetCombineMethod ==
    /\ out = NoCall
    /\ \E m \in CombineMethods \ {combine_method} : combine_method' = m
    /\ UNCHANGED <<model, cache, emb_cache, out, storeVars, fusionVars,
                   lifeVars, faissVars,
                   procVars>>

\* predict is called only on a loaded model
PredictOutcomes == IF model THEN BOOLEAN ELSE {TRUE}

\* rerank on the first query; the cache is used with it or not
RerankCall ==
    /\ out = NoCall
    /\ \E docs \in DocLists(DOMAIN RerankDocs, MaxDocs),
          cut \in {<<0, FALSE>>, <<1, FALSE>>, <<1, TRUE>>},
          use_cache \in BOOLEAN, predict_ok \in PredictOutcomes :
            RerankStep(1, docs, cut[1], cut[2], use_cache, predict_ok)

\* rerank on the other queries, the cache left out
RerankUncached ==
    /\ out = NoCall
    /\ \E q \in {2, 3}, docs \in DocLists(DOMAIN RerankDocs, MaxDocs),
          top_k \in {0, 1}, predict_ok \in PredictOutcomes :
            RerankStep(q, docs, top_k, FALSE, FALSE, predict_ok)

\* the caller takes what the call gave back
TakeResult ==
    /\ out # NoCall
    /\ out' = NoCall
    /\ UNCHANGED <<model, combine_method, cache, emb_cache, storeVars,
                   fusionVars, lifeVars, faissVars,
                   procVars>>

NextRerank == SetCombineMethod \/ RerankCall \/ RerankUncached \/ TakeResult

SpecRerank == InitReranker /\ [][NextRerank]_vars

-----------------------------------------------------------------------------
(* The two caches filled beyond their size.  The reranker and the          *)
(* embeddings client share no state, so each is driven from its initial    *)
(* state while the other stays as constructed.  The inputs give each cache *)
(* one key more than it may hold.                                          *)

\* f"query_{hash(text)}" and f"doc_{hash(text)}"
EmbedKey(kind, text) == <<kind, text>>

QueryTexts == 1..((MaxCacheSize + 2) \div 2)
DocTexts == 1..((MaxCacheSize + 1) \div 2)

\* embed_query: the entry stored; a cached text and a failed request (three
\* attempts, then the exception is raised) store nothing
EmbedQueryEntries(c, text, api_ok) ==
    IF HasKey(c, EmbedKey("query", text)) \/ ~api_ok THEN <<>>
    ELSE <<[key |-> EmbedKey("query", text), value |-> text]>>

\* embed_documents, one batch: the texts not cached when the batch starts
\* are requested together and stored in order; if that request fails each
\* is requested alone and stored when its own request succeeds
EmbedDocumentsEntries(c, texts, batch_ok, each_ok) ==
    LET to_embed == SelectSeq([i \in 1..Len(texts) |-> i],
                      LAMBDA i : ~HasKey(c, EmbedKey("doc", texts[i])))
        stored == SelectSeq(to_embed, LAMBDA i : batch_ok \/ each_ok[i])
    IN  [n \in 1..Len(stored) |->
            [key |-> EmbedKey("doc", texts[stored[n]]),
             value |-> texts[stored[n]]]]

\* candidates a query is reranked with here
CacheDocsFor(q) ==
    {d \in {2} : q <= (MaxCacheSize + 2) \div 2}
        \cup {d \in {4} : q <= (MaxCacheSize + 1) \div 2}

\* up to n elements of S, repetitions allowed
Lists(S, n) == UNION {[1..m -> S] : m \in 0..n}

InitCache ==
    /\ InitReranker
    /\ model = TRUE

\* rerank with the cache, on any of the queries
RerankMany ==
    /\ out = NoCall
    /\ emb_cache = <<>>
    /\ \E q \in 1..((MaxCacheSize + 2) \div 2), predict_ok \in PredictOutcomes :
          \E docs \in Lists(CacheDocsFor(q), MaxDocs) :
              RerankStep(q, docs, 0, FALSE, TRUE, predict_ok)

EmbedQuery ==
    /\ out = NoCall
    /\ cache = <<>>
    /\ \E text \in QueryTexts, api_ok \in BOOLEAN :
          LET entries == EmbedQueryEntries(emb_cache, text, api_ok)
          IN  /\ emb_cache' = UpdateAll(emb_cache, entries)
              /\ out' = [NoCall EXCEPT
                    !.op = "embed_query", !.docs = <<text>>,
                    !.error = IF ~api_ok /\ ~HasKey(emb_cache,
                                                    EmbedKey("query", text))
                              THEN "APIError" ELSE "none",
                    !.evicted = EvictedBy(emb_cache, entries)]
    /\ UNCHANGED <<model, combine_method, cache, storeVars, fusionVars,
                   lifeVars, faissVars,
                   procVars>>

EmbedDocuments ==
    /\ out = NoCall
    /\ cache = <<>>
    /\ \E texts \in Lists(DocTexts, MaxBatch), batch_ok \in BOOLEAN :
          \E each_ok \in [1..Len(texts) -> IF batch_ok THEN {TRUE} ELSE BOOLEAN] :
              LET entries == EmbedDocumentsEntries(emb_cache, texts, batch_ok,
                                                   each_ok)
              IN  /\ emb_cache' = UpdateAll(emb_cache, entries)
                  /\ out' = [NoCall EXCEPT
                        !.op = "embed_documents", !.docs = texts,
                        !.evicted = EvictedBy(emb_cache, entries)]
    /\ UNCHANGED <<model, combine_method, cache, storeVars, fusionVars,
                   lifeVars, faissVars,
                   procVars>>

NextCache == RerankMany \/ EmbedQuery \/ EmbedDocuments \/ TakeResult

SpecCache == InitCache /\ [][NextCache]_vars

-----------------------------------------------------------------------------
(* Fusion called directly *)

\* no call of the store or the engine is in progress
\* a ranked list as a search returns it: distinct chunks, rank = position,
\* scores non-increasing
RankedLists(src) ==
    UNION { { [i \in 1..n |-> [chunk_id |-> ids[i], score |-> sc[i],
                               rank |-> i, source |-> src]] :
                ids \in {f \in [1..n -> ChunkIds] :
                            \A i, j \in 1..n : i # j => f[i] # f[j]},
                sc \in {g \in [1..n -> InputScores] :
                            \A i \in 1..(n - 1) : g[i] >= g[i + 1]} }
            : n \in 0..MaxLen }

\* weights the callers pass: [0.6, 0.4] (_hybrid_search) or none
WeightChoices == {<<6, 4>>, <<>>}

InitFusion ==
    /\ lists \in {<<a, b>> : a \in RankedLists("vector"),
                             b \in RankedLists("keyword")}
    /\ fused = <<>>
    /\ prev = <<>>
    /\ method = "none"
    /\ calls = 0
    /\ index = <<>>
    /\ reranker = FALSE
    /\ idf_cache = 0
    /\ last = Idle
    /\ model = FALSE
    /\ combine_method = "weighted"
    /\ cache = <<>>
    /\ emb_cache = <<>>
    /\ out = NoCall
    /\ backend = FaissBuilt
    /\ stats = 0
    /\ disk = NoFiles
    /\ faiss_vectors = <<>>
    /\ faiss_documents = <<>>
    /\ writer = NoWriter
    /\ reader = NoReader
    /\ stages = <<>>
    /\ threads = NoThreads

FuseEngineRrf ==
    /\ calls < MaxCalls
    /\ method \in {"none", "rrf"}
    /\ fused' = EngineRrf(lists)
    /\ lists' = EngineRrfInputsAfter(lists)
    /\ prev' = Ids(fused)
    /\ method' = "rrf"
    /\ calls' = calls + 1
    /\ UNCHANGED <<storeVars, rerankVars, lifeVars, faissVars,
                   procVars>>

FuseStoreRrf ==
    /\ calls < MaxCalls
    /\ method \in {"none", "store_rrf"}
    /\ fused' = StoreRrf(lists)
    /\ prev' = Ids(fused)
    /\ method' = "store_rrf"
    /\ calls' = calls + 1
    /\ UNCHANGED <<lists, storeVars, rerankVars, lifeVars, faissVars,
                   procVars>>

FuseWeighted ==
    /\ calls = 0
    /\ \E w \in WeightChoices :
          /\ fused' = WeightedFusion(lists, w)
          /\ lists' = WeightedInputsAfter(lists, w)
    /\ prev' = Ids(fused)
    /\ method' = "weighted"
    /\ calls' = calls + 1
    /\ UNCHANGED <<storeVars, rerankVars, lifeVars, faissVars,
                   procVars>>

NextFusion == FuseEngineRrf \/ FuseStoreRrf \/ FuseWeighted

SpecFusion == InitFusion /\ [][NextFusion]_vars

-----------------------------------------------------------------------------
(* The store and the engine used by one caller *)

TopKs == 0..MaxTopK

\* outcomes of reranker.predict in one call: it is only invoked when a
\* reranker is loaded
Outcomes == IF reranker THEN BOOLEAN ELSE {TRUE}

\* top_k of the VectorStore.search call a search makes
VectorTopK(op, top_k) ==
    CASE op = "store.search" -> top_k
      [] op = "store.hybrid_search" -> TopKVector
      [] op = "engine.vector" -> 2 * EffectiveTopK(top_k)
      [] op = "engine.hybrid" -> 2 * TopKVector
      [] OTHER -> 0

\* the exception a search raises
SearchError(op, top_k) ==
    IF op = "engine.keyword" THEN "none"
    ELSE SearchFaissError(index, EffectiveTopK(VectorTopK(op, top_k)))

Call(op, top_k, filter, ok_vector, ok_final, raw, results) ==
    [op |-> op, top_k |-> top_k, filter |-> filter,
     ok_vector |-> ok_vector, ok_final |-> ok_final,
     raw |-> raw, results |-> results, error |-> SearchError(op, top_k),
     lengths |-> <<>>, query |-> TermQuery]

\* queries of the keyword search: words, stopwords and punctuation
Queries == {<<>>, <<"?">>, <<"el", "la", "!">>, <<"el", "term">>,
            <<"term", "?", "term">>}

Init ==
    /\ index = <<>>
    /\ reranker \in BOOLEAN
    /\ idf_cache = 0
    /\ last = Idle
    /\ lists = <<>>
    /\ fused = <<>>
    /\ prev = <<>>
    /\ method = "none"
    /\ calls = 0
    /\ model = FALSE
    /\ combine_method = "weighted"
    /\ cache = <<>>
    /\ emb_cache = <<>>
    /\ out = NoCall
    /\ backend = FaissBuilt
    /\ stats = 0
    /\ disk = NoFiles
    /\ faiss_vectors = <<>>
    /\ faiss_documents = <<>>
    /\ writer = NoWriter
    /\ reader = NoReader
    /\ stages = <<>>
    /\ threads = NoThreads

\* add_chunks with one chunk: _add_to_faiss appends vector, text, metadata
AddChunks ==
    /\ last = Idle
    /\ FaissStore
    /\ Len(index) < MaxEntries
    /\ \E c \in Chunks :
          /\ index' = AddToFaiss(index, <<c>>, <<EmbeddingDimension>>)
          /\ faiss_vectors' =
                AddToFaiss(faiss_vectors, <<c>>, <<EmbeddingDimension>>)
          /\ faiss_documents' =
                AddToFaiss(faiss_documents, <<c>>, <<EmbeddingDimension>>)
          /\ stats' = TotalChunksAfter(stats, <<c>>, <<EmbeddingDimension>>)
    /\ UNCHANGED <<reranker, idf_cache, last, fusionVars, rerankVars,
                   backend, disk, procVars>>

VectorStoreSearch ==
    /\ last = Idle
    /\ \E k \in TopKs, f \in Filters, ok \in Outcomes :
          last' = Call("store.search", k, f, ok, TRUE,
                       SearchFaiss(index, EffectiveTopK(k), f),
                       StoreSearch(index, k, f, ok))
    /\ UNCHANGED <<index, reranker, idf_cache, fusionVars, rerankVars, lifeVars, faissVars,
                   procVars>>

VectorStoreHybridSearch ==
    /\ last = Idle
    /\ \E k \in TopKs, okv \in Outcomes, okf \in Outcomes :
          last' = Call("store.hybrid_search", k, "none", okv, okf, <<>>,
                       StoreHybridSearch(index, k, okv, okf))
    /\ UNCHANGED <<index, reranker, idf_cache, fusionVars, rerankVars, lifeVars, faissVars,
                   procVars>>

EngineSearchVector ==
    /\ last = Idle
    /\ \E k \in TopKs, f \in Filters, ok \in Outcomes :
          last' = Call("engine.vector", k, f, ok, TRUE, <<>>,
                       EngineSearch(index, k, "vector", f, ok, TRUE))
    /\ UNCHANGED <<index, reranker, idf_cache, fusionVars, rerankVars, lifeVars, faissVars,
                   procVars>>

EngineSearchKeyword ==
    /\ last = Idle
    /\ \E k \in TopKs, f \in Filters :
          /\ last' = Call("engine.keyword", k, f, TRUE, TRUE, <<>>,
                          EngineSearch(index, k, "keyword", f, TRUE, TRUE))
          /\ idf_cache' = IdfCacheAfter(index, f)
    /\ UNCHANGED <<index, reranker, fusionVars, rerankVars, lifeVars, faissVars,
                   procVars>>

\* search(query, top_k, "keyword", filters) with any query
EngineSearchKeywordQuery ==
    /\ last = Idle
    /\ \E q \in Queries, k \in TopKs, f \in Filters :
          /\ last' = [Call("engine.keyword", k, f, TRUE, TRUE, <<>>,
                           KeywordSearch(idf_cache, q, index,
                                         EffectiveTopK(k), f))
                        EXCEPT !.query = q]
          /\ idf_cache' = IdfCacheAfterQuery(q, index, f)
    /\ UNCHANGED <<index, reranker, fusionVars, rerankVars, lifeVars, faissVars,
                   procVars>>

EngineSearchHybrid ==
    /\ last = Idle
    /\ \E k \in TopKs, f \in Filters, okv \in Outcomes, okf \in Outcomes :
          /\ last' = Call("engine.hybrid", k, f, okv, okf, <<>>,
                          EngineSearch(index, k, "hybrid", f, okv, okf))
          /\ idf_cache' = IdfCacheAfter(index, f)
    /\ UNCHANGED <<index, reranker, fusionVars, rerankVars, lifeVars, faissVars,
                   procVars>>

\* the caller takes the returned list
Return ==
    /\ last # Idle
    /\ last' = Idle
    /\ UNCHANGED <<index, reranker, idf_cache, fusionVars, rerankVars, lifeVars, faissVars,
                   procVars>>

Next ==
    \/ AddChunks
    \/ VectorStoreSearch
    \/ VectorStoreHybridSearch
    \/ EngineSearchVector
    \/ EngineSearchKeyword
    \/ EngineSearchKeywordQuery
    \/ EngineSearchHybrid
    \/ Return

Spec == Init /\ [][Next]_vars

-----------------------------------------------------------------------------
(* The life of a flat-index store: construction over the persist           *)
(* directory, additions, save_index                                        *)

\* chunks that are added here: two of them are equally similar to the query
StoredChunks == {1, 3, 5}

\* lengths of the vectors embed_documents may hand to _add_to_faiss
VectorLengths == {EmbeddingDimension, SmallDimension}

\* VectorStore(store_type) in a process where the two backends are
\* installed or not; it replaces the store there was
Construct ==
    /\ last = Idle
    /\ \E configured \in StoreTypes, chromadb_available \in BOOLEAN,
          faiss_available \in BOOLEAN :
          LET built == Constructed(configured, chromadb_available,
                                   faiss_available)
          IN  /\ backend' = built
              /\ index' = IF built.store_type = "faiss"
                          THEN LoadedIndex(disk) ELSE <<>>
              /\ faiss_documents' = IF built.store_type = "faiss"
                                    THEN LoadedDocuments(disk) ELSE <<>>
              /\ faiss_vectors' = IF built.store_type = "faiss"
                                  THEN LoadedVectors(disk) ELSE <<>>
              /\ last' = [Idle EXCEPT !.op = "construct",
                                      !.error = built.error]
    /\ stats' = 0
    /\ UNCHANGED <<reranker, idf_cache, disk, fusionVars, rerankVars,
                   procVars>>

\* add_chunks with the vectors embed_documents returned
AddChunksVectors ==
    /\ last = Idle
    /\ FaissStore
    /\ \E chunks \in Lists(StoredChunks, MaxBatch) \ {<<>>} :
          /\ Len(index) + Len(chunks) <= MaxEntries
          /\ Len(faiss_vectors) + Len(chunks) <= MaxEntries
          /\ \E lengths \in [1..Len(chunks) -> VectorLengths] :
                /\ index' = AddToFaiss(index, chunks, lengths)
                /\ faiss_vectors' = AddToFaiss(faiss_vectors, chunks, lengths)
                /\ faiss_documents' =
                      AddToFaiss(faiss_documents, chunks, lengths)
                /\ stats' = TotalChunksAfter(stats, chunks, lengths)
                /\ last' = [Idle EXCEPT !.op = "add_chunks",
                                        !.error = AddError(lengths),
                                        !.lengths = lengths]
    /\ UNCHANGED <<reranker, idf_cache, backend, disk, fusionVars,
                   rerankVars, procVars>>

SaveIndex ==
    /\ last = Idle
    /\ FaissStore
    /\ disk' = SavedFiles(faiss_vectors, index, faiss_documents, stats)
    /\ UNCHANGED <<index, reranker, idf_cache, last, backend, stats,
                   fusionVars, rerankVars, faissVars, procVars>>

NextStore == Construct \/ AddChunksVectors \/ SaveIndex \/ Return

SpecStore == Init /\ [][NextStore]_vars

\* VectorStore('faiss') over a directory whose faiss_metadata.pkl cannot be
\* unpickled, or whose faiss_index.bin cannot be read either: the exception
\* is logged and the store is used with what was assigned before it
ConstructLoadFails ==
    /\ last = Idle
    /\ disk.exists
    /\ \E read_ok \in BOOLEAN :
          faiss_vectors' = IF read_ok THEN LoadedVectors(disk) ELSE <<>>
    /\ index' = <<>>
    /\ faiss_documents' = <<>>
    /\ backend' = FaissBuilt
    /\ stats' = 0
    /\ last' = [Idle EXCEPT !.op = "construct"]
    /\ UNCHANGED <<reranker, idf_cache, disk, fusionVars, rerankVars,
                   procVars>>

NextLoad == NextStore \/ ConstructLoadFails

SpecLoad == Init /\ [][NextLoad]_vars

-----------------------------------------------------------------------------
(* add_chunks and search on one flat-index store, each in a thread of its   *)
(* own.  No lock is taken by either; a step is one statement on the shared  *)
(* lists.                                                                   *)

\* _add_to_faiss: faiss_index.add(embeddings_np), all rows of the call
WriterAdd ==
    /\ writer.pc = "idle"
    /\ \E chunks \in Lists(StoredChunks, MaxBatch) \ {<<>>} :
          /\ Len(faiss_vectors) + Len(chunks) <= MaxEntries
          /\ faiss_vectors' = faiss_vectors \o chunks
          /\ writer' = [pc |-> "append_document", chunks |-> chunks,
                        done |-> 0]
    /\ UNCHANGED <<index, faiss_documents, stats, reader, reranker,
                   idf_cache, last, backend, disk, stages, threads,
                   fusionVars, rerankVars>>

\* self.faiss_documents.append(text)
WriterAppendDocument ==
    /\ writer.pc = "append_document"
    /\ faiss_documents' = Append(faiss_documents,
                                 writer.chunks[writer.done + 1])
    /\ writer' = [writer EXCEPT !.pc = "append_metadata"]
    /\ UNCHANGED <<index, faiss_vectors, stats, reader, reranker,
                   idf_cache, last, backend, disk, stages, threads,
                   fusionVars, rerankVars>>

\* self.faiss_metadata.append({..., "chunk_id": id_}); after the last chunk
\* add_chunks updates stats["total_chunks"] and returns
WriterAppendMetadata ==
    /\ writer.pc = "append_metadata"
    /\ index' = Append(index, writer.chunks[writer.done + 1])
    /\ IF writer.done + 1 = Len(writer.chunks)
       THEN /\ writer' = NoWriter
            /\ stats' = stats + Len(writer.chunks)
       ELSE /\ writer' = [writer EXCEPT !.pc = "append_document",
                                        !.done = @ + 1]
            /\ stats' = stats
    /\ UNCHANGED <<faiss_vectors, faiss_documents, reader, reranker,
                   idf_cache, last, backend, disk, stages, threads,
                   fusionVars, rerankVars>>

\* _search_faiss up to faiss_index.search: the positions of the k nearest
\* rows, or [] at once on an index without rows
ReaderLookup ==
    /\ reader.pc = "idle"
    /\ \E top_k \in 1..MaxTopK :
          reader' =
            IF Len(faiss_vectors) = 0
            THEN [NoReader EXCEPT !.pc = "done", !.top_k = top_k]
            ELSE [NoReader EXCEPT
                    !.pc = "format", !.top_k = top_k,
                    !.found = FaissIndexSearch(faiss_vectors,
                                  FaissK(faiss_vectors, top_k))]
    /\ UNCHANGED <<index, faiss_vectors, faiss_documents, stats, writer,
                   reranker, idf_cache, last, backend, disk, stages,
                   threads, fusionVars, rerankVars>>

\* one turn of the loop over the positions found: metadata =
\* self.faiss_metadata[idx], self.faiss_documents[idx]; a position beyond a
\* list raises IndexError
ReaderFormat ==
    /\ reader.pc = "format"
    /\ LET n == Len(reader.results) + 1
           row == reader.found[n]
       IN  reader' =
             IF row.pos > Len(index) \/ row.pos > Len(faiss_documents)
             THEN [reader EXCEPT !.pc = "done", !.error = "IndexError"]
             ELSE [reader EXCEPT
                     !.results = Append(@,
                        [chunk_id |-> index[row.pos],
                         content |-> faiss_documents[row.pos],
                         vector |-> faiss_vectors[row.pos],
                         score |-> row.score, rank |-> n]),
                     !.pc = IF n = Len(reader.found)
                            THEN "done" ELSE "format"]
    /\ UNCHANGED <<index, faiss_vectors, faiss_documents, stats, writer,
                   reranker, idf_cache, last, backend, disk, stages,
                   threads, fusionVars, rerankVars>>

\* the search returns or raises
ReaderReturn ==
    /\ reader.pc = "done"
    /\ reader' = NoReader
    /\ UNCHANGED <<index, faiss_vectors, faiss_documents, stats, writer,
                   reranker, idf_cache, last, backend, disk, stages,
                   threads, fusionVars, rerankVars>>

NextConcurrent ==
    \/ WriterAdd
    \/ WriterAppendDocument
    \/ WriterAppendMetadata
    \/ ReaderLookup
    \/ ReaderFormat
    \/ ReaderReturn

SpecConcurrent == Init /\ [][NextConcurrent]_vars

-----------------------------------------------------------------------------
(* async_rerank: rerank calls in executor threads over one reranker.  Each  *)
(* call scores one document the cache does not hold and stores the score    *)
(* with _update_cache; no lock is taken, a step is one statement on         *)
(* self.cache.                                                              *)

SetMax(S) == CHOOSE x \in S : \A y \in S : y <= x

\* documents with pairwise different first 100 characters
KeyDocs == <<1, 2, 4, 5>>

\* pairs of a query and a document, numbered
MaxKeys == MaxCacheSize + NumThreads
PairQuery(n) == ((n - 1) % Len(QueryTerms)) + 1
PairDoc(n) == KeyDocs[((n - 1) \div Len(QueryTerms)) + 1]
PairKey(n) == CacheKey(PairQuery(n), PairDoc(n))

\* the pairs that are cached or being scored by a thread
TakenPairs ==
    {n \in 1..MaxKeys : HasKey(cache, PairKey(n))}
        \cup {threads[t].key : t \in {u \in Threads : threads[u].pc # "idle"}}

\* the pair after the last of them
NextPair == IF TakenPairs = {} THEN 1 ELSE SetMax(TakenPairs) + 1

\* the keys of the cache, oldest first
CacheKeys(c) == [i \in 1..Len(c) |-> c[i].key]

\* del self.cache[k]
DelKey(c, key) == SelectSeq(c, LAMBDA e : e.key # key)

\* async_rerank(query, [doc]) on the pair after the last one cached or being
\* scored: the model has scored it and _update_cache is entered
AsyncRerank(t) ==
    /\ threads[t].pc = "idle"
    /\ NextPair <= MaxKeys
    /\ threads' = [threads EXCEPT ![t] =
                      [pc |-> "check", key |-> NextPair, evict |-> <<>>]]
    /\ UNCHANGED <<cache, model, combine_method, emb_cache, out, storeVars,
                   fusionVars, lifeVars, faissVars, writer, reader, stages>>

\* if len(self.cache) >= self.max_cache_size: keys_to_remove = ...
UpdateCacheCheck(t) ==
    /\ threads[t].pc = "check"
    /\ threads' = [threads EXCEPT ![t] =
          IF Len(cache) >= MaxCacheSize
          THEN [@ EXCEPT !.pc = "evict",
                         !.evict = SubSeq(CacheKeys(cache), 1,
                                          Min2(EvictCount, Len(cache)))]
          ELSE [@ EXCEPT !.pc = "insert"]]
    /\ UNCHANGED <<cache, model, combine_method, emb_cache, out, storeVars,
                   fusionVars, lifeVars, faissVars, writer, reader, stages>>

\* for k in keys_to_remove: del self.cache[k]; a key another thread has
\* deleted raises KeyError, which rerank catches to return the fallback
UpdateCacheEvict(t) ==
    /\ threads[t].pc = "evict"
    /\ LET keys == threads[t].evict
       IN  IF keys = <<>>
           THEN /\ threads' = [threads EXCEPT ![t].pc = "insert"]
                /\ cache' = cache
           ELSE IF HasKey(cache, Head(keys))
           THEN /\ threads' = [threads EXCEPT ![t].evict = Tail(keys)]
                /\ cache' = DelKey(cache, Head(keys))
           ELSE /\ threads' = [threads EXCEPT ![t] = NoThreads[t]]
                /\ cache' = cache
    /\ UNCHANGED <<model, combine_method, emb_cache, out, storeVars,
                   fusionVars, lifeVars, faissVars, writer, reader, stages>>

\* self.cache[key] = score, and the call returns
UpdateCacheInsert(t) ==
    /\ threads[t].pc = "insert"
    /\ cache' = SetKey(cache, PairKey(threads[t].key),
                       Predict(PairQuery(threads[t].key),
                               PairDoc(threads[t].key)))
    /\ threads' = [threads EXCEPT ![t] = NoThreads[t]]
    /\ UNCHANGED <<model, combine_method, emb_cache, out, storeVars,
                   fusionVars, lifeVars, faissVars, writer, reader, stages>>

NextAsync ==
    \E t \in Threads :
        \/ AsyncRerank(t)
        \/ UpdateCacheCheck(t)
        \/ UpdateCacheEvict(t)
        \/ UpdateCacheInsert(t)

SpecAsync == InitCache /\ [][NextAsync]_vars

-----------------------------------------------------------------------------
(* One hybrid query of the engine, statement by statement.  `stages` lists  *)
(* what the query has done so far, each entry with the list it produced.    *)

StageNames == [i \in 1..Len(stages) |-> stages[i].stage]

LastStage == IF stages = <<>> THEN "Idle" ELSE stages[Len(stages)].stage

HasStage(name) == \E i \in 1..Len(stages) : stages[i].stage = name

\* the list the latest entry of that name produced
StageOut(name) ==
    stages[CHOOSE i \in 1..Len(stages) :
              /\ stages[i].stage = name
              /\ \A j \in (i + 1)..Len(stages) : stages[j].stage # name].out

Stage(name, result) == [stage |-> name, out |-> result]

\* the remaining variables, which no statement of the query writes
queryFrame == <<index, reranker, fusionVars, rerankVars, lifeVars, faissVars,
                writer, reader, threads>>

\* _hybrid_search -> _vector_search -> VectorStore.search(query,
\* top_k_vector * 2, filters): embed_query and _search_faiss
StageVectorSearch ==
    /\ last = Idle
    /\ stages = <<>>
    /\ \E k \in TopKs, f \in Filters :
          /\ last' = [Idle EXCEPT !.op = "engine.hybrid.running",
                                  !.top_k = k, !.filter = f]
          /\ stages' = <<Stage("VectorSearch",
                 SearchFaiss(index, EffectiveTopK(TopKVector * 2), f))>>
    /\ UNCHANGED <<idf_cache, queryFrame>>

\* VectorStore.search: if self.reranker and len(results) > 0:
\* results = self._rerank_results(query, results)
StageStoreRerank ==
    /\ LastStage = "VectorSearch"
    /\ reranker /\ Len(StageOut("VectorSearch")) > 0
    /\ \E ok \in Outcomes :
          /\ last' = [last EXCEPT !.ok_vector = ok]
          /\ stages' = Append(stages, Stage("Rerank",
                 StoreRerank(StageOut("VectorSearch"), ok, Cent)))
    /\ UNCHANGED <<idf_cache, queryFrame>>

\* VectorStore.search: results of score >= similarity_threshold, the first
\* top_k of them
StageStoreThreshold ==
    /\ \/ LastStage = "VectorSearch"
          /\ ~(reranker /\ Len(StageOut("VectorSearch")) > 0)
       \/ LastStage = "Rerank" /\ ~HasStage("Fuse")
    /\ stages' = Append(stages, Stage("ThresholdFilter",
           Truncate(SelectSeq(stages[Len(stages)].out,
                              LAMBDA r : r.score >= Threshold(Cent)),
                    EffectiveTopK(TopKVector * 2))))
    /\ UNCHANGED <<last, idf_cache, queryFrame>>

\* _hybrid_search: keyword_results = self._keyword_search(...)
StageLexicalSearch ==
    /\ LastStage = "ThresholdFilter"
    /\ stages' = Append(stages, Stage("LexicalSearch",
           EngineKeywordSearch(index, TopKKeyword, last.filter)))
    /\ idf_cache' = IdfCacheAfter(index, last.filter)
    /\ UNCHANGED <<last, queryFrame>>

\* _hybrid_search: fused_results = self._fuse_results([vector_results,
\* keyword_results], ...)
StageFuse ==
    /\ LastStage = "LexicalSearch"
    /\ stages' = Append(stages, Stage("Fuse",
           EngineRrf(<<AsVectorResults(StageOut("ThresholdFilter"),
                                       TopKVector),
                       StageOut("LexicalSearch")>>)))
    /\ UNCHANGED <<last, idf_cache, queryFrame>>

\* _hybrid_search: if ... self.vector_store.reranker: fused_results =
\* self._rerank_results(query, fused_results); the model is invoked when
\* the fused list is not empty
StageEngineRerank ==
    /\ LastStage = "Fuse"
    /\ reranker /\ Len(StageOut("Fuse")) > 0
    /\ \E ok \in Outcomes :
          /\ last' = [last EXCEPT !.ok_final = ok]
          /\ stages' = Append(stages, Stage("Rerank",
                 EngineRerank(StageOut("Fuse"), ok)))
    /\ UNCHANGED <<idf_cache, queryFrame>>

\* _hybrid_search: return fused_results[:top_k]
StageDone ==
    /\ \/ LastStage = "Fuse" /\ ~(reranker /\ Len(StageOut("Fuse")) > 0)
       \/ LastStage = "Rerank" /\ HasStage("Fuse")
    /\ stages' = Append(stages, Stage("Done",
           Truncate(stages[Len(stages)].out, EffectiveTopK(last.top_k))))
    /\ UNCHANGED <<last, idf_cache, queryFrame>>

\* the caller takes the returned list
StagesReturn ==
    /\ LastStage = "Done"
    /\ stages' = <<>>
    /\ last' = Idle
    /\ UNCHANGED <<idf_cache, queryFrame>>

NextStages ==
    \/ AddChunks
    \/ StageVectorSearch
    \/ StageStoreRerank
    \/ StageStoreThreshold
    \/ StageLexicalSearch
    \/ StageFuse
    \/ StageEngineRerank
    \/ StageDone
    \/ StagesReturn

SpecStages == Init /\ [][NextStages]_vars

-----------------------------------------------------------------------------
(* Properties of search, checked under Spec *)

Results == last.results

SearchOps == {"store.search", "engine.vector", "engine.keyword", "engine.hybrid"}
VectorOps == {"store.search", "engine.vector"}
HybridOps == {"engine.hybrid", "store.hybrid_search"}

\* every chunk id is indexed at most once
DistinctIndex == \A i, j \in 1..Len(index) : index[i] = index[j] => i = j

\* C1: a search asked for top_k = K results returns at most K results.
C1_AtMostK ==
    last.op \in SearchOps => Len(Results) <= last.top_k

\* C2: every returned list has non-increasing scores.
C2_ScoresNonIncreasing ==
    last.op \in SearchOps => NonIncreasing(Results)

C2_Witness ==
    /\ last.op = "engine.hybrid"
    /\ reranker /\ last.ok_final
    /\ last.filter # "none"
    /\ Len(Results) >= 2
    /\ Results[1].score > Results[2].score
    /\ Results[1].source = "hybrid-reranked"

\* C3: no search shows two entries with the same chunk id, however often a
\* chunk was added.
C3_OneEntryPerChunkId ==
    (last.op \in SearchOps /\ last.top_k >= 1) =>
        \A i, j \in 1..Len(Results) :
            Results[i].chunk_id = Results[j].chunk_id => i = j

\* C4: no result of a vector or hybrid search has a final score below
\* similarity_threshold.
C4_NoResultBelowThreshold ==
    (DistinctIndex /\ last.top_k >= 1) =>
        /\ last.op \in VectorOps =>
              \A i \in 1..Len(Results) : Results[i].score >= Threshold(Cent)
        /\ last.op \in HybridOps =>
              \A i \in 1..Len(Results) : Results[i].score >= Threshold(One)

\* final score of an indexed chunk in a vector search: the combined score
\* when the reranker scored the query, else the similarity
FinalScore(id) ==
    IF reranker /\ last.ok_vector
    THEN CombinedScore(id, Corpus[id].sim, Cent)
    ELSE Corpus[id].sim

Surviving == {i \in 1..Len(index) : FinalScore(index[i]) >= Threshold(Cent)}

\* C5: a vector search (top_k >= 1, no metadata filter) returns exactly
\* min(top_k, n) results, n the number of indexed entries whose final score
\* passes similarity_threshold: none is lost to a truncation made before the
\* filter.
C5_FilterBeforeAnyTruncation ==
    (/\ last.op \in VectorOps
     /\ last.top_k >= 1
     /\ last.filter = "none"
     /\ DistinctIndex) =>
        Len(Results) = Min2(last.top_k, Cardinality(Surviving))

Matching == SelectSeq(index, LAMBDA id : Matches(id, last.filter))

\* C6: with a metadata filter the backend search yields the min(k, m) most
\* similar entries among the m entries that match the filter.
C6_FilterBeforeNeighbourTruncation ==
    (/\ last.op = "store.search"
     /\ last.filter # "none"
     /\ last.top_k >= 1
     /\ DistinctIndex) =>
        LET k == FaissK(index, EffectiveTopK(last.top_k))
            best == FaissIndexSearch(Matching, Min2(k, Len(Matching)))
        IN  /\ Len(last.raw) = Min2(k, Len(Matching))
            /\ Ids(last.raw) = [i \in 1..Len(best) |-> Matching[best[i].pos]]

-----------------------------------------------------------------------------
(* Properties of rank fusion, checked under SpecFusion *)

IsRrf == method \in {"rrf", "store_rrf"}

\* position of the first appearance of a chunk id, scanning the input lists
\* in the order given and each list from the top
FirstAppearance(ls, id) ==
    LET all == Refs(ls, 1)
    IN  CHOOSE i \in 1..Len(all) :
            /\ Obj(ls, all[i]).chunk_id = id
            /\ \A j \in 1..(i - 1) : Obj(ls, all[j]).chunk_id # id

InputIds(ls) == {Obj(ls, Refs(ls, 1)[i]).chunk_id : i \in 1..Len(Refs(ls, 1))}

\* sum over the lists of 1 / (60 + p), p the 1-based position of id
PositionSum(ls, id) ==
    SumSeq([l \in 1..Len(ls) |->
        SumSeq([p \in 1..Len(ls[l]) |->
            IF ls[l][p].chunk_id = id THEN One \div (60 + p) ELSE 0])])

\* C7: a second RRF call on the same two list objects returns the chunk ids
\* in the same order as the first call.
C7_RrfOrderStable ==
    (IsRrf /\ calls >= 2) => Ids(fused) = prev

\* C8: after an RRF call every fused score is the sum, over the input lists
\* holding the document, of 1 / (60 + position in that list), and the fused
\* list is sorted by that sum in descending order.
C8_RrfScoreIsPositionSum ==
    (IsRrf /\ calls >= 1) =>
        /\ \A i \in 1..Len(fused) :
              fused[i].score = PositionSum(lists, fused[i].chunk_id)
        /\ NonIncreasing(fused)

\* C9: for RRF and weighted fusion the chunk ids of the fused list are the
\* union of the chunk ids of the input lists, each exactly once.
C9_FusedIdsAreUnion ==
    calls >= 1 =>
        /\ {fused[i].chunk_id : i \in 1..Len(fused)} = InputIds(lists)
        /\ \A i, j \in 1..Len(fused) :
              fused[i].chunk_id = fused[j].chunk_id => i = j

C9_Witness ==
    /\ calls = 1
    /\ method = "weighted"
    /\ \E id \in InputIds(lists) :
          /\ \A p \in 1..Len(lists[1]) : lists[1][p].chunk_id # id
          /\ \E i \in 1..Len(fused) : fused[i].chunk_id = id
    /\ \E id \in InputIds(lists) :
          /\ \E p \in 1..Len(lists[1]) : lists[1][p].chunk_id = id
          /\ \E p \in 1..Len(lists[2]) : lists[2][p].chunk_id = id

\* C10: for RRF and weighted fusion two documents with equal combined scores
\* keep the order of their first appearance across the input lists.
C10_TiesKeepFirstAppearance ==
    calls >= 1 =>
        \A i, j \in 1..Len(fused) :
            (i < j /\ fused[i].score = fused[j].score) =>
                FirstAppearance(lists, fused[i].chunk_id)
                    < FirstAppearance(lists, fused[j].chunk_id)

C10_Witness ==
    /\ calls = 1
    /\ method = "weighted"
    /\ \E i, j \in 1..Len(fused) :
          /\ i < j
          /\ fused[i].score = fused[j].score
          /\ \E p \in 1..Len(lists[1]) : lists[1][p].chunk_id = fused[i].chunk_id
          /\ \A p \in 1..Len(lists[1]) : lists[1][p].chunk_id # fused[j].chunk_id

\* lists that hold the chunk id
ListsHolding(ls, id) ==
    {l \in 1..Len(ls) : \E p \in 1..Len(ls[l]) : ls[l][p].chunk_id = id}

\* C11: weighted fusion divides by no zero score range: a list whose scores
\* are all equal (a single-element list included) is left unnormalized, so
\* each of its documents is in the fused list, and a document found by that
\* list alone has the combined score weight * raw score.
C11_ZeroRangeLeftUnnormalized ==
    [][(method' = "weighted" /\ calls' = calls + 1) =>
          \A l \in Unnormalized(lists) : \A p \in 1..Len(lists[l]) :
              LET doc == lists[l][p]
              IN  \E i \in 1..Len(fused') :
                    /\ fused'[i].chunk_id = doc.chunk_id
                    /\ ListsHolding(lists, doc.chunk_id) = {l} =>
                          \E w \in WeightChoices :
                              fused'[i].score
                                = doc.score * NormDen * Weights(lists, w)[l]]_vars

C11_Witness ==
    /\ method = "weighted"
    /\ calls = 1
    /\ Len(lists[1]) >= 2
    /\ Len(lists[2]) = 1
    /\ ListsHolding(lists, lists[2][1].chunk_id) = {2}
    /\ \E i \in 1..Len(fused) : fused[i].chunk_id = lists[2][1].chunk_id

-----------------------------------------------------------------------------
(* Properties of the reranker, checked under SpecRerank *)

\* C12: when the rerank model is unavailable (not loaded, or predict
\* raises), rerank raises nothing and returns one result per candidate (all
\* of them without a top_k, the first top_k otherwise), each with the
\* lexical-overlap rerank_score and the combined_score computed from it.
C12_FallbackReturnsFullList ==
    (out.op = "rerank" /\ out.path = "fallback") =>
        /\ out.error = "none"
        /\ Len(out.results) = IF out.top_k = 0 THEN Len(out.docs)
                              ELSE Min2(out.top_k, Len(out.docs))
        /\ \A i \in 1..Len(out.results) :
              LET r == out.results[i]
              IN  /\ r.rerank_score = FallbackScore(out.query, r.chunk_id)
                  /\ r.combined_score
                       = CombineScores(out.mode, r.original_score,
                                       r.rerank_score)

\* C13: in every list rerank returns, new_rank is 1, 2, 3, ... in list
\* order, combined_score does not increase along the list, and of two
\* results with equal combined_score the one of lower original_rank is first.
C13_RanksFollowCombinedScore ==
    (out.op = "rerank" /\ out.error = "none") =>
        /\ \A i \in 1..Len(out.results) : out.results[i].new_rank = i
        /\ \A i \in 1..(Len(out.results) - 1) :
              out.results[i].combined_score
                >= out.results[i + 1].combined_score
        /\ \A i, j \in 1..Len(out.results) :
              (i < j /\ out.results[i].combined_score
                          = out.results[j].combined_score)
                => out.results[i].original_rank < out.results[j].original_rank

C13_Witness ==
    /\ out.op = "rerank"
    /\ out.path = "model"
    /\ out.error = "none"
    /\ Len(out.results) = 2
    /\ out.results[1].combined_score = out.results[2].combined_score
    /\ out.results[1].chunk_id # out.results[2].chunk_id

\* C14: in each combination mode rerank gives every candidate a
\* combined_score and raises nothing, zero scores included.
C14_EveryModeCombines ==
    out.op = "rerank" =>
        /\ out.error = "none"
        /\ out.top_k = 0 => Len(out.results) = Len(out.docs)

-----------------------------------------------------------------------------
(* Properties of the caches, checked under SpecCache *)

\* C15: after any sequence of rerank calls the rerank cache holds at most
\* max_cache_size entries, and so does the embedding cache after any
\* sequence of embed_query and embed_documents calls.
C15_CachesBounded ==
    /\ Len(cache) <= MaxCacheSize
    /\ Len(emb_cache) <= MaxCacheSize

C15_Witness ==
    /\ out.op = "rerank"
    /\ out.evicted > 0
    /\ Len(cache) = MaxCacheSize

\* the embedding cache has been full and entries were removed
C15_WitnessEmbeddings ==
    /\ out.op = "embed_documents"
    /\ out.evicted > 0
    /\ Len(emb_cache) = MaxCacheSize

-----------------------------------------------------------------------------
(* Properties of the store's construction, additions and persistence,      *)
(* checked under SpecStore                                                 *)

\* the backend that is not the configured one
OtherBackend(configured) ==
    IF configured = "chromadb" THEN "faiss" ELSE "chromadb"

Available(b, store_type) ==
    IF store_type = "chromadb" THEN b.chromadb_available
    ELSE b.faiss_available

\* C16: when the configured backend (chromadb or faiss) is not installed and
\* the other one is, constructing the store raises nothing and the store is
\* built on the other backend.
C16_FallsBackEitherWay ==
    (/\ last.op = "construct"
     /\ backend.configured \in {"chromadb", "faiss"}
     /\ ~Available(backend, backend.configured)
     /\ Available(backend, OtherBackend(backend.configured)))
        => /\ last.error = "none"
           /\ backend.store_type = OtherBackend(backend.configured)

\* C17: add_chunks with a vector whose length is not the index's dimension
\* fails with DimensionMismatch and leaves the entries of the index and
\* total_chunks as they were.
C17_MismatchRefused ==
    [][(/\ last'.op = "add_chunks"
        /\ last.op = "idle"
        /\ \E i \in 1..Len(last'.lengths) :
              last'.lengths[i] # EmbeddingDimension)
          => /\ last'.error = "DimensionMismatch"
             /\ index' = index
             /\ stats' = stats]_vars

-----------------------------------------------------------------------------
(* Properties of searches without entries or without query tokens, checked *)
(* under Spec                                                              *)

\* C19: on an index without entries every search of the store and of the
\* engine (vector, keyword, hybrid), with or without a reranker, returns
\* the empty list and raises nothing.
C19_EmptyIndexReturnsNothing ==
    (Len(index) = 0 /\ last.op \in SearchOps \cup HybridOps)
        => /\ last.results = <<>>
           /\ last.error = "none"

C19_Witness ==
    /\ Len(index) = 0
    /\ reranker
    /\ last.op = "engine.hybrid"
    /\ last.results = <<>>

-----------------------------------------------------------------------------
(* Frame of the fusion routines, checked under SpecFusion *)

\* C25: a call of _reciprocal_rank_fusion or of _weighted_fusion leaves every
\* result object of every input list with the score, rank and source it had.
C25_FusionLeavesInputs ==
    [][(calls' = calls + 1 /\ method' \in {"rrf", "weighted"})
          => lists' = lists]_vars

-----------------------------------------------------------------------------
(* Transparency of the rerank cache, checked under SpecRerank *)

\* C26: whatever was reranked before, a rerank that scores its candidates
\* with the model gives each of them the score the model predicts for it,
\* with the cache as without it.
C26_CacheTransparent ==
    (out.op = "rerank" /\ out.path = "model" /\ out.error = "none") =>
        \A i \in 1..Len(out.results) :
            out.results[i].rerank_score
                = Predict(out.query, out.results[i].chunk_id)

-----------------------------------------------------------------------------
(* Labels of the hybrid results, checked under Spec *)

\* C27: a result of the engine's hybrid search has source 'hybrid-reranked'
\* only if the reranker's predict call of that query succeeded and gave it
\* a rerank score.
C27_LabelMeansReranked ==
    last.op = "engine.hybrid" =>
        \A i \in 1..Len(last.results) :
            last.results[i].source = "hybrid-reranked"
                => (reranker /\ last.ok_final)

-----------------------------------------------------------------------------
(* Properties of the keyword branch, checked under Spec *)

\* C23: a vector search and a keyword search of the engine leave the entries
\* of the index and the engine's idf_cache as they were before the query.
C23_BranchesWriteNothing ==
    [][(last.op = "idle" /\ last'.op \in {"engine.vector", "engine.keyword"})
          => /\ index' = index
             /\ idf_cache' = idf_cache]_vars

\* C29: the list a keyword search returns is the list an engine that never
\* searched before returns for the same query, top_k and filter on the same
\* index.
C29_KeywordHistoryIndependent ==
    last.op = "engine.keyword" =>
        last.results = KeywordSearch(0, last.query, index,
                                     EffectiveTopK(last.top_k), last.filter)

\* the documents of the searched corpus that hold a token of the query
Holders(query, docs) ==
    IF TermCount(Tokenize(query)) > 0
    THEN SelectSeq(docs, LAMBDA id : Corpus[id].tf > 0) ELSE <<>>

\* C30: on a corpus of one or more documents a keyword search returns only
\* documents that hold a query token, each with a score above 0, and returns
\* every such document when top_k is at least their number.
C30_HoldersAreReturned ==
    LET docs == AllDocuments(index, last.filter)
        holders == Holders(last.query, docs)
    IN  (last.op = "engine.keyword" /\ Len(docs) > 0) =>
            /\ \A i \in 1..Len(last.results) :
                  /\ \E j \in 1..Len(holders) :
                        holders[j] = last.results[i].chunk_id
                  /\ last.results[i].score > 0
            /\ Len(holders) <= EffectiveTopK(last.top_k) =>
                  \A j \in 1..Len(holders) :
                      \E i \in 1..Len(last.results) :
                          last.results[i].chunk_id = holders[j]

-----------------------------------------------------------------------------
(* The three lists of the flat index, checked under SpecLoad *)

\* C28: in every state of a flat-index store the index holds as many vectors
\* as there are texts and as there are metadata records.
C28_ListsAligned ==
    FaissStore =>
        /\ Len(faiss_vectors) = Len(index)
        /\ Len(faiss_documents) = Len(index)

-----------------------------------------------------------------------------
(* A search beside add_chunks, checked under SpecConcurrent *)

\* C22: a search that runs while add_chunks runs raises nothing, and every
\* entry it returns has the text and the metadata of the chunk whose vector
\* the lookup found.
C22_NoTornEntry ==
    /\ reader.error = "none"
    /\ \A i \in 1..Len(reader.results) :
          /\ reader.results[i].chunk_id = reader.results[i].vector
          /\ reader.results[i].content = reader.results[i].vector

-----------------------------------------------------------------------------
(* Concurrent rerank calls, checked under SpecAsync *)

\* C24: while rerank calls run concurrently, the score cache never holds
\* more than max_cache_size entries, however their check, evict and insert
\* steps interleave.
C24_CacheBoundedConcurrently == Len(cache) <= MaxCacheSize

-----------------------------------------------------------------------------
(* The stages of a hybrid query, checked under SpecStages *)

\* C21: a finished hybrid query has passed its stages in the order
\* VectorSearch, LexicalSearch, Fuse, Rerank, ThresholdFilter, Done, with
\* Rerank and ThresholdFilter once each and after Fuse; Rerank is left out
\* at most, and always when the store has no reranker.
C21_StagesInOrder ==
    LastStage = "Done" =>
        /\ StageNames \in
              {<<"VectorSearch", "LexicalSearch", "Fuse", "Rerank",
                 "ThresholdFilter", "Done">>,
               <<"VectorSearch", "LexicalSearch", "Fuse",
                 "ThresholdFilter", "Done">>}
        /\ ~reranker => ~HasStage("Rerank")

=============================================================================
